---- MODULE Spec2Model ----
(***************************************************************************)
(* Model of ppt_to_json.py: the fold of main() over the slides of a deck,  *)
(* which classifies each slide as a round marker, the final marker or a    *)
(* content slide, extracts title / body / notes text and the slide's       *)
(* media, and accumulates the round -> category -> clue structure that is  *)
(* finally written as the JSON document.                                   *)
(*                                                                         *)
(* Text is modelled as a sequence of one-character strings, so that        *)
(* strip(), upper(), lower(), replace(), join() and the file-name          *)
(* formatting are computed and not assumed.                                *)
(***************************************************************************)
EXTENDS Integers, Sequences, FiniteSets, TLC

(***************************************************************************)
(* Bounds of the model.                                                    *)
(***************************************************************************)
\* Longest deck of text-only slides explored under Spec.
MaxSlides == 5
\* Longest deck of media-bearing slides explored under SpecMedia.
MaxMediaSlides == 3

(***************************************************************************)
(* Python values.                                                          *)
(***************************************************************************)
\* None, and a present value, of a variable that is None or a dict.
None == <<>>
Some(x) == <<x>>

\* str.strip() with no argument removes these.
Whitespace == {" ", "\n", "\t"}

LowerLetters == <<"a","b","c","d","e","f","g","h","i","j","k","l","m","n","o","p","q","r","s","t","u","v","w","x","y","z">>
UpperLetters == <<"A","B","C","D","E","F","G","H","I","J","K","L","M","N","O","P","Q","R","S","T","U","V","W","X","Y","Z">>
Digits == <<"0","1","2","3","4","5","6","7","8","9">>

\* The upper-case letter of each lower-case letter, and the converse.
UpperTable ==
    [c \in {LowerLetters[i] : i \in 1..Len(LowerLetters)} |->
        UpperLetters[CHOOSE i \in 1..Len(LowerLetters) : LowerLetters[i] = c]]
LowerTable ==
    [c \in {UpperLetters[i] : i \in 1..Len(UpperLetters)} |->
        LowerLetters[CHOOSE i \in 1..Len(UpperLetters) : UpperLetters[i] = c]]

UpperChar(c) == IF c \in DOMAIN UpperTable THEN UpperTable[c] ELSE c
LowerChar(c) == IF c \in DOMAIN LowerTable THEN LowerTable[c] ELSE c

\* str.upper(), str.lower()
Upper(s) == [i \in 1..Len(s) |-> UpperChar(s[i])]
Lower(s) == [i \in 1..Len(s) |-> LowerChar(s[i])]

\* str.lstrip(chars), str.rstrip(chars), str.strip()
RECURSIVE LStripChars(_, _)
LStripChars(s, chars) ==
    IF s # <<>> /\ Head(s) \in chars THEN LStripChars(Tail(s), chars) ELSE s

RECURSIVE RStripChars(_, _)
RStripChars(s, chars) ==
    IF s # <<>> /\ s[Len(s)] \in chars
    THEN RStripChars(SubSeq(s, 1, Len(s) - 1), chars)
    ELSE s

Strip(s) == RStripChars(LStripChars(s, Whitespace), Whitespace)

\* str.startswith(p), str.endswith(p), p in s
StartsWith(s, p) == Len(p) <= Len(s) /\ SubSeq(s, 1, Len(p)) = p
EndsWith(s, p) == Len(p) <= Len(s) /\ SubSeq(s, Len(s) - Len(p) + 1, Len(s)) = p
Contains(s, p) == \E i \in 0..(Len(s) - Len(p)) : SubSeq(s, i + 1, i + Len(p)) = p

\* str.replace(old, new): non-overlapping occurrences, left to right.
RECURSIVE Replace(_, _, _)
Replace(s, old, new) ==
    IF s = <<>> THEN <<>>
    ELSE IF StartsWith(s, old)
         THEN new \o Replace(SubSeq(s, Len(old) + 1, Len(s)), old, new)
         ELSE <<Head(s)>> \o Replace(Tail(s), old, new)

\* sep.join(parts)
RECURSIVE Join(_, _)
Join(sep, parts) ==
    IF parts = <<>> THEN <<>>
    ELSE IF Len(parts) = 1 THEN parts[1]
    ELSE parts[1] \o sep \o Join(sep, Tail(parts))

\* Position of the last "/" of a path, 0 when it has none.
LastSlash(p) ==
    IF \E i \in 1..Len(p) : p[i] = "/"
    THEN CHOOSE i \in 1..Len(p) : p[i] = "/" /\ \A j \in (i + 1)..Len(p) : p[j] # "/"
    ELSE 0

\* os.path.basename(p)
Basename(p) == SubSeq(p, LastSlash(p) + 1, Len(p))

\* The extension os.path.splitext(p) returns: from the last dot of the last
\* path component, the component's leading dots not counting.
SplitExt(p) ==
    LET base  == Basename(p)
        first == Len(base) - Len(LStripChars(base, {"."})) + 1
        dots  == {i \in (first + 1)..Len(base) : base[i] = "."}
    IN  IF dots = {} THEN <<>>
        ELSE SubSeq(base, CHOOSE i \in dots : \A j \in dots : j <= i, Len(base))

\* format(n, "03d"), format(n, "02d")
Pad3(n) ==
    IF n < 1000
    THEN <<Digits[((n \div 100) % 10) + 1], Digits[((n \div 10) % 10) + 1], Digits[(n % 10) + 1]>>
    ELSE <<Digits[((n \div 1000) % 10) + 1], Digits[((n \div 100) % 10) + 1],
           Digits[((n \div 10) % 10) + 1], Digits[(n % 10) + 1]>>
Pad2(n) ==
    IF n < 100
    THEN <<Digits[((n \div 10) % 10) + 1], Digits[(n % 10) + 1]>>
    ELSE <<Digits[((n \div 100) % 10) + 1], Digits[((n \div 10) % 10) + 1], Digits[(n % 10) + 1]>>

(***************************************************************************)
(* Configuration: the argparse defaults of main().                         *)
(***************************************************************************)
round1_title == <<"R","O","U","N","D"," ","1">>
round2_title == <<"R","O","U","N","D"," ","2">>
final_title == <<"F","I","N","A","L"," ","J","E","O","P","A","R","D","Y">>
assets_root == <<"a","s","s","e","t","s">>

r1_key == Upper(Strip(round1_title))
r2_key == Upper(Strip(round2_title))
f_key == Upper(Strip(final_title))

AUDIO_EXTS ==
    { <<".","m","p","3">>, <<".","m","4","a">>, <<".","w","a","v">>,
      <<".","a","a","c">>, <<".","o","g","g">> }

\* MSO_SHAPE_TYPE.PICTURE
PICTURE == 13

(***************************************************************************)
(* A slide, as python-pptx and the zip container present it to the code:   *)
(*   shapes     the slide's shapes in traversal order, each with           *)
(*              has_text_frame, text (of its text frame), shape_type,      *)
(*              has_image and ext (of its image);                          *)
(*   title      the position in shapes of slide.shapes.title, 0 if None;   *)
(*   has_notes  whether slide.notes_slide.notes_text_frame can be read,    *)
(*   notes      and its text;                                              *)
(*   has_rels   whether the slide's .rels part is in the container,        *)
(*   rels       and its child elements, each with a tag and a Target.      *)
(***************************************************************************)
TextShape(kind, text) ==
    [has_text_frame |-> TRUE, text |-> text, shape_type |-> kind,
     has_image |-> FALSE, ext |-> <<>>]

PictureShape(kind, ext) ==
    [has_text_frame |-> FALSE, text |-> <<>>, shape_type |-> kind,
     has_image |-> TRUE, ext |-> ext]

Rel(tag, target) == [tag |-> tag, target |-> target]

(***************************************************************************)
(* The field extractors.                                                   *)
(***************************************************************************)
get_slide_title(slide) ==
    IF slide.title # 0 /\ slide.shapes[slide.title].has_text_frame
    THEN Strip(slide.shapes[slide.title].text)
    ELSE <<>>

\* The stripped, non-empty texts of the non-title text frames from shape i on.
RECURSIVE BodyParts(_, _)
BodyParts(slide, i) ==
    IF i > Len(slide.shapes) THEN <<>>
    ELSE LET shape == slide.shapes[i]
             text  == Strip(shape.text)
         IN  IF ~shape.has_text_frame THEN BodyParts(slide, i + 1)
             ELSE IF slide.title # 0 /\ i = slide.title THEN BodyParts(slide, i + 1)
             ELSE IF text # <<>> THEN <<text>> \o BodyParts(slide, i + 1)
             ELSE BodyParts(slide, i + 1)

get_body_text(slide) == Strip(Join(<<"\n">>, BodyParts(slide, 1)))

get_notes_text(slide) == IF slide.has_notes THEN Strip(slide.notes) ELSE <<>>

(***************************************************************************)
(* The media resolver.                                                     *)
(***************************************************************************)
ImageName(slide_idx_1based, img_num, ext) ==
    <<"s","l","i","d","e">> \o Pad3(slide_idx_1based) \o <<"_","i","m","g">>
        \o Pad2(img_num) \o <<".">> \o ext

\* The names extract_images_from_slide gives the pictures among the shapes
\* from shape i on, img_num pictures having been met before.
RECURSIVE ImagesFrom(_, _, _, _)
ImagesFrom(slide, slide_idx_1based, i, img_num) ==
    IF i > Len(slide.shapes) THEN <<>>
    ELSE LET shape == slide.shapes[i]
             ext   == Lower(IF shape.ext # <<>> THEN shape.ext ELSE <<"p","n","g">>)
         IN  IF shape.shape_type = PICTURE /\ shape.has_image
             THEN <<ImageName(slide_idx_1based, img_num + 1, ext)>>
                      \o ImagesFrom(slide, slide_idx_1based, i + 1, img_num + 1)
             ELSE ImagesFrom(slide, slide_idx_1based, i + 1, img_num)

extract_images_from_slide(slide, slide_idx_1based) ==
    ImagesFrom(slide, slide_idx_1based, 1, 0)

\* The normalisation of one relationship Target to a path in the container.
NormTarget(target) ==
    LET norm1 == Replace(target, <<"\\">>, <<"/">>)
        norm2 == LStripChars(Replace(norm1, <<".",".">>, <<>>), {"/"})
    IN  IF StartsWith(norm2, <<"p","p","t","/">>) THEN norm2
        ELSE <<"p","p","t","/">> \o norm2

\* Whether the loop of _slide_audio_targets keeps this element of the manifest.
IsAudioRel(rel) ==
    /\ EndsWith(Lower(rel.tag), <<"r","e","l","a","t","i","o","n","s","h","i","p">>)
    /\ Contains(rel.target, <<"m","e","d","i","a","/">>)
    /\ SplitExt(Lower(NormTarget(rel.target))) \in AUDIO_EXTS

RECURSIVE AudioTargetsFrom(_, _)
AudioTargetsFrom(rels, i) ==
    IF i > Len(rels) THEN <<>>
    ELSE IF IsAudioRel(rels[i])
         THEN <<NormTarget(rels[i].target)>> \o AudioTargetsFrom(rels, i + 1)
         ELSE AudioTargetsFrom(rels, i + 1)

slide_audio_targets(slide) ==
    IF ~slide.has_rels THEN <<>> ELSE AudioTargetsFrom(slide.rels, 1)

AudioName(slide_idx_1based, t) ==
    <<"s","l","i","d","e">> \o Pad3(slide_idx_1based) \o <<"_">> \o Basename(t)

RECURSIVE SavedFrom(_, _, _, _)
SavedFrom(targets, namelist, slide_idx_1based, i) ==
    IF i > Len(targets) THEN <<>>
    ELSE IF targets[i] \notin namelist
         THEN SavedFrom(targets, namelist, slide_idx_1based, i + 1)
         ELSE <<AudioName(slide_idx_1based, targets[i])>>
                  \o SavedFrom(targets, namelist, slide_idx_1based, i + 1)

extract_audio_from_slide(slide, namelist, slide_idx_1based) ==
    SavedFrom(slide_audio_targets(slide), namelist, slide_idx_1based, 1)

\* The set of the elements of a sequence: the files one call writes.
Range(seq) == {seq[i] : i \in 1..Len(seq)}

(***************************************************************************)
(* The decks explored.  Shape type 14 is a placeholder, 17 a text box.     *)
(***************************************************************************)
\* A slide with a title placeholder, one body placeholder and speaker notes.
TextSlide(title, body, has_notes, notes) ==
    [shapes |-> <<TextShape(14, title), TextShape(14, body)>>, title |-> 1,
     has_notes |-> has_notes, notes |-> notes, has_rels |-> FALSE, rels |-> <<>>]

\* The same slide with further shapes and a relationship manifest.
MediaSlide(title, body, has_notes, notes, more, rels) ==
    [shapes |-> <<TextShape(14, title), TextShape(14, body)>> \o more, title |-> 1,
     has_notes |-> has_notes, notes |-> notes, has_rels |-> TRUE, rels |-> rels]

Sci == <<"S","c","i">>
Art == <<"A","r","t">>
Q1 == <<"q","1">>
Q2 == <<"q","2">>
A1 == <<"a","1">>

\* Text-only slides: both round markers (the second in lower case, padded),
\* a final marker in mixed case, two categories, two questions, and a content
\* slide whose body is blank.
DeckSlides ==
    { TextSlide(<<"R","O","U","N","D"," ","1">>, <<>>, FALSE, <<>>),
      TextSlide(<<" ","r","o","u","n","d"," ","2">>, <<>>, FALSE, <<>>),
      TextSlide(<<"F","i","n","a","l"," ","J","e","o","p","a","r","d","y">>, Q2, TRUE, A1),
      TextSlide(Sci, Q1, TRUE, A1),
      TextSlide(Sci, Q2, TRUE, A1),
      TextSlide(Art, Q1, TRUE, A1),
      TextSlide(Sci, <<" ">>, TRUE, A1) }

\* The media parts of the container (z.namelist(), the slides' own parts
\* and manifests apart).
ContainerMedia ==
    { <<"p","p","t","/","m","e","d","i","a","/","m","1",".","m","p","3">>,
      <<"p","p","t","/","m","e","d","i","a","/","m","2",".","M","P","3">>,
      <<"p","p","t","/","m","e","d","i","a","/","i","1",".","p","n","g">> }

RelTag == <<"{","n","s","}","R","e","l","a","t","i","o","n","s","h","i","p">>
OtherTag == <<"{","n","s","}","E","x","t","e","n","s","i","o","n">>
TargetM1 == <<".",".","/","m","e","d","i","a","/","m","1",".","m","p","3">>
TargetM2 == <<"/","p","p","t","/","m","e","d","i","a","/","m","2",".","M","P","3">>
TargetM9 == <<".",".","/","m","e","d","i","a","/","m","9",".","w","a","v">>
TargetI1 == <<".",".","/","m","e","d","i","a","/","i","1",".","p","n","g">>
TargetLayout == <<".",".","/","s","l","i","d","e","L","a","y","o","u","t","s","/","l","2",".","x","m","l">>

\* Slides with media: markers that carry media, final markers with and
\* without text, content slides with pictures, with audio that resolves,
\* with audio that does not, with no manifest, and content slides that carry
\* media and lack notes, a title or a body.
MediaSlides ==
    { MediaSlide(<<"R","O","U","N","D"," ","1">>, <<>>, FALSE, <<>>,
                 <<PictureShape(PICTURE, <<"p","n","g">>)>>, <<Rel(RelTag, TargetM1)>>),
      TextSlide(<<"R","O","U","N","D"," ","2">>, <<>>, FALSE, <<>>),
      TextSlide(<<"F","I","N","A","L"," ","J","E","O","P","A","R","D","Y">>, <<>>, FALSE, <<>>),
      MediaSlide(<<"f","i","n","a","l"," ","j","e","o","p","a","r","d","y"," ">>, Q1, TRUE, A1,
                 <<PictureShape(PICTURE, <<>>)>>, <<Rel(RelTag, TargetM1)>>),
      TextSlide(Sci, Q1, TRUE, A1),
      MediaSlide(Sci, Q1, TRUE, A1,
                 <<PictureShape(PICTURE, <<"J","P","G">>), PictureShape(PICTURE, <<>>)>>,
                 <<Rel(RelTag, TargetLayout), Rel(RelTag, TargetI1)>>),
      MediaSlide(Sci, Q2, TRUE, A1, <<>>, <<Rel(RelTag, TargetLayout), Rel(RelTag, TargetM1)>>),
      MediaSlide(Sci, Q1, TRUE, A1, <<PictureShape(14, <<"p","n","g">>)>>,
                 <<Rel(RelTag, TargetM9), Rel(OtherTag, TargetM1)>>),
      MediaSlide(Sci, Q1, FALSE, <<>>,
                 <<PictureShape(PICTURE, <<"p","n","g">>)>>, <<Rel(RelTag, TargetM1)>>),
      [shapes |-> <<TextShape(17, Q1), PictureShape(PICTURE, <<"p","n","g">>)>>, title |-> 0,
       has_notes |-> TRUE, notes |-> A1, has_rels |-> FALSE, rels |-> <<>>],
      MediaSlide(Art, <<" ">>, TRUE, A1,
                 <<PictureShape(PICTURE, <<"p","n","g">>)>>, <<Rel(RelTag, TargetM1)>>),
      MediaSlide(Art, Q1, TRUE, A1, <<TextShape(17, <<" ">>), TextShape(17, Q2)>>,
                 <<Rel(RelTag, TargetM2), Rel(RelTag, TargetM1)>>) }

(***************************************************************************)
(* The state of main().                                                    *)
(*   slides         the slides of prs.slides the loop has consumed         *)
(*   current_round  "none" (None), "round1" or "round2"                    *)
(*   rounds         the two OrderedDicts, each a sequence of               *)
(*                  <<category, clues>> items in insertion order           *)
(*   final          None or the Final record                               *)
(*   images_dir,                                                           *)
(*   audio_dir      the names of the files written to the assets folders   *)
(*   data           None, or the document once it is built                 *)
(*   pc             "loop" while slides are consumed, then "done"          *)
(***************************************************************************)
VARIABLES slides, current_round, rounds, final, images_dir, audio_dir, data, pc

vars == <<slides, current_round, rounds, final, images_dir, audio_dir, data, pc>>

\* Init with the loop starting inside round 1.
InitInRound1 ==
    /\ slides = <<>>
    /\ current_round = "round1"
    /\ rounds = [round1 |-> <<>>, round2 |-> <<>>]
    /\ final = None
    /\ images_dir = {}
    /\ audio_dir = {}
    /\ data = None
    /\ pc = "loop"

Init ==
    /\ slides = <<>>
    /\ current_round = "none"
    /\ rounds = [round1 |-> <<>>, round2 |-> <<>>]
    /\ final = None
    /\ images_dir = {}
    /\ audio_dir = {}
    /\ data = None
    /\ pc = "loop"

\* The title the loop compares with the marker keys.
UpperTitle(slide) == Upper(Strip(get_slide_title(slide)))

ImageRefs(imgs) ==
    [i \in 1..Len(imgs) |-> [src |-> assets_root \o <<"/","i","m","a","g","e","s","/">> \o imgs[i]]]

AudioRefs(auds) ==
    [i \in 1..Len(auds) |-> [src |-> assets_root \o <<"/","a","u","d","i","o","/">> \o auds[i]]]

\* WithMedia without the "if imgs:" and "if auds:" tests: both keys always set.
WithMediaAlways(rec, imgs, auds) ==
    rec @@ ("images" :> ImageRefs(imgs)) @@ ("audio" :> AudioRefs(auds))

\* A dict with the images and audio keys set when the lists are not empty.
WithMedia(rec, imgs, auds) ==
    LET withImgs == IF imgs # <<>> THEN rec @@ ("images" :> ImageRefs(imgs)) ELSE rec
    IN  IF auds # <<>> THEN withImgs @@ ("audio" :> AudioRefs(auds)) ELSE withImgs

FinalRecord(q, a, imgs, auds) ==
    WithMedia([category |-> final_title, question |-> q, answer |-> a], imgs, auds)

ClueRecord(question, answer, imgs, auds) ==
    WithMedia([question |-> question, answer |-> answer], imgs, auds)

\* IsComplete with "and" for "or": a slide is dropped only when all three are empty.
IsCompleteAnyGiven(category, question, answer) ==
    category # <<>> \/ question # <<>> \/ answer # <<>>

\* "not category or not question or not answer" is false.
IsComplete(category, question, answer) ==
    category # <<>> /\ question # <<>> /\ answer # <<>>

\* Position of a key in an OrderedDict, 0 when it is not a key.
KeyIndex(od, key) ==
    IF \E i \in 1..Len(od) : od[i][1] = key
    THEN CHOOSE i \in 1..Len(od) : od[i][1] = key
    ELSE 0

\* AppendToCategory re-inserting the key (pop, then set): the category moves
\* to the end of the OrderedDict.
AppendToCategoryMoveToEnd(od, category, clue) ==
    LET k    == KeyIndex(od, category)
        old  == IF k = 0 THEN <<>> ELSE od[k][2]
        rest == SelectSeq(od, LAMBDA item : item[1] # category)
    IN  Append(rest, <<category, Append(old, clue)>>)

\* AppendToCategory grouping only adjacent slides: a new category starts
\* whenever the title differs from the last category's.
AppendToCategoryAdjacent(od, category, clue) ==
    IF od # <<>> /\ od[Len(od)][1] = category
    THEN [od EXCEPT ![Len(od)] = <<category, Append(od[Len(od)][2], clue)>>]
    ELSE Append(od, <<category, <<clue>>>>)

\* od[category] = [] when category is no key yet, then od[category].append(clue)
AppendToCategory(od, category, clue) ==
    LET od1 == IF KeyIndex(od, category) = 0 THEN Append(od, <<category, <<>>>>) ELSE od
        k   == KeyIndex(od1, category)
    IN  [od1 EXCEPT ![k] = <<category, Append(od1[k][2], clue)>>]

\* [{"name": cat, "clues": clues} for cat, clues in od.items()]
Categories(od) == [i \in 1..Len(od) |-> [name |-> od[i][1], clues |-> od[i][2]]]

\* The title is one of the three marker keys: the loop has taken one of its
\* first three branches.
IsMarkerTitle(slide) == UpperTitle(slide) \in {r1_key, r2_key, f_key}

(***************************************************************************)
(* One iteration of the loop over prs.slides, by the branch it takes.      *)
(***************************************************************************)
\* Round1Marker starting the round afresh: the round's OrderedDict is emptied.
Round1MarkerResets(slide) ==
    /\ pc = "loop"
    /\ UpperTitle(slide) = r1_key
    /\ current_round' = "round1"
    /\ rounds' = [rounds EXCEPT !.round1 = <<>>]
    /\ slides' = Append(slides, slide)
    /\ UNCHANGED <<final, images_dir, audio_dir, data, pc>>

Round1Marker(slide) ==
    /\ pc = "loop"
    /\ UpperTitle(slide) = r1_key
    /\ current_round' = "round1"
    /\ slides' = Append(slides, slide)
    /\ UNCHANGED <<rounds, final, images_dir, audio_dir, data, pc>>

Round2Marker(slide) ==
    /\ pc = "loop"
    /\ UpperTitle(slide) # r1_key
    /\ UpperTitle(slide) = r2_key
    /\ current_round' = "round2"
    /\ slides' = Append(slides, slide)
    /\ UNCHANGED <<rounds, final, images_dir, audio_dir, data, pc>>

\* The final-marker branch with one of three changes: the first Final record
\* is kept, an incomplete final slide is dropped like a content slide, or
\* the current round is left as it is.
FinalMarkerChanged(slide, keepFirst, dropIncomplete, keepSection) ==
    /\ pc = "loop"
    /\ UpperTitle(slide) # r1_key
    /\ UpperTitle(slide) # r2_key
    /\ UpperTitle(slide) = f_key
    /\ LET idx  == Len(slides) + 1
           q    == get_body_text(slide)
           a    == get_notes_text(slide)
           imgs == extract_images_from_slide(slide, idx)
           auds == extract_audio_from_slide(slide, ContainerMedia, idx)
       IN  IF dropIncomplete /\ (q = <<>> \/ a = <<>>)
           THEN UNCHANGED <<images_dir, audio_dir, final, current_round>>
           ELSE /\ images_dir' = images_dir \cup Range(imgs)
                /\ audio_dir' = audio_dir \cup Range(auds)
                /\ final' = IF keepFirst /\ final # None THEN final
                            ELSE Some(FinalRecord(q, a, imgs, auds))
                /\ current_round' = IF keepSection THEN current_round ELSE "none"
    /\ slides' = Append(slides, slide)
    /\ UNCHANGED <<rounds, data, pc>>

FinalMarkerKeepFirst(slide) == FinalMarkerChanged(slide, TRUE, FALSE, FALSE)
FinalMarkerDropIncomplete(slide) == FinalMarkerChanged(slide, FALSE, TRUE, FALSE)
FinalMarkerKeepsSection(slide) == FinalMarkerChanged(slide, FALSE, FALSE, TRUE)

FinalMarker(slide) ==
    /\ pc = "loop"
    /\ UpperTitle(slide) # r1_key
    /\ UpperTitle(slide) # r2_key
    /\ UpperTitle(slide) = f_key
    /\ LET idx  == Len(slides) + 1
           q    == get_body_text(slide)
           a    == get_notes_text(slide)
           imgs == extract_images_from_slide(slide, idx)
           auds == extract_audio_from_slide(slide, ContainerMedia, idx)
       IN  /\ images_dir' = images_dir \cup Range(imgs)
           /\ audio_dir' = audio_dir \cup Range(auds)
           /\ final' = Some(FinalRecord(q, a, imgs, auds))
    /\ current_round' = "none"
    /\ slides' = Append(slides, slide)
    /\ UNCHANGED <<rounds, data, pc>>

SkipOutsideRound(slide) ==
    /\ pc = "loop"
    /\ ~IsMarkerTitle(slide)
    /\ current_round \notin {"round1", "round2"}
    /\ slides' = Append(slides, slide)
    /\ UNCHANGED <<current_round, rounds, final, images_dir, audio_dir, data, pc>>

\* DropIncomplete with the media extracted before the completeness test.
DropIncompleteAfterExtract(slide) ==
    /\ pc = "loop"
    /\ UpperTitle(slide) \notin {r1_key, r2_key, f_key}
    /\ current_round \in {"round1", "round2"}
    /\ ~IsComplete(Strip(get_slide_title(slide)), get_body_text(slide), get_notes_text(slide))
    /\ images_dir' = images_dir \cup Range(extract_images_from_slide(slide, Len(slides) + 1))
    /\ audio_dir' = audio_dir
                        \cup Range(extract_audio_from_slide(slide, ContainerMedia, Len(slides) + 1))
    /\ slides' = Append(slides, slide)
    /\ UNCHANGED <<current_round, rounds, final, data, pc>>

DropIncomplete(slide) ==
    /\ pc = "loop"
    /\ ~IsMarkerTitle(slide)
    /\ current_round \in {"round1", "round2"}
    /\ ~IsComplete(Strip(get_slide_title(slide)), get_body_text(slide), get_notes_text(slide))
    /\ slides' = Append(slides, slide)
    /\ UNCHANGED <<current_round, rounds, final, images_dir, audio_dir, data, pc>>

AppendClue(slide) ==
    /\ pc = "loop"
    /\ ~IsMarkerTitle(slide)
    /\ current_round \in {"round1", "round2"}
    /\ LET idx      == Len(slides) + 1
           category == Strip(get_slide_title(slide))
           question == get_body_text(slide)
           answer   == get_notes_text(slide)
           imgs     == extract_images_from_slide(slide, idx)
           auds     == extract_audio_from_slide(slide, ContainerMedia, idx)
           clue     == ClueRecord(question, answer, imgs, auds)
       IN  /\ IsComplete(category, question, answer)
           /\ images_dir' = images_dir \cup Range(imgs)
           /\ audio_dir' = audio_dir \cup Range(auds)
           /\ rounds' = [rounds EXCEPT
                           ![current_round] = AppendToCategory(@, category, clue)]
    /\ slides' = Append(slides, slide)
    /\ UNCHANGED <<current_round, final, data, pc>>

\* The deck is exhausted: the document is built from the accumulator.
BuildData ==
    /\ pc = "loop"
    /\ data' = Some([title  |-> "Jeopardy Content",
                     rounds |-> << [name |-> "Round 1", categories |-> Categories(rounds.round1)],
                                   [name |-> "Round 2", categories |-> Categories(rounds.round2)] >>,
                     final  |-> final])
    /\ pc' = "done"
    /\ UNCHANGED <<slides, current_round, rounds, final, images_dir, audio_dir>>

\* The deck explored has fewer than n slides so far.
Within(n) == Len(slides) < n

Next ==
    \/ \E slide \in DeckSlides :
           \/ Within(MaxSlides) /\ Round1Marker(slide)
           \/ Within(MaxSlides) /\ Round2Marker(slide)
           \/ Within(MaxSlides) /\ FinalMarker(slide)
           \/ Within(MaxSlides) /\ SkipOutsideRound(slide)
           \/ Within(MaxSlides) /\ DropIncomplete(slide)
           \/ Within(MaxSlides) /\ AppendClue(slide)
    \/ BuildData

Spec == Init /\ [][Next]_vars

NextMedia ==
    \/ \E slide \in MediaSlides :
           \/ Within(MaxMediaSlides) /\ Round1Marker(slide)
           \/ Within(MaxMediaSlides) /\ Round2Marker(slide)
           \/ Within(MaxMediaSlides) /\ FinalMarker(slide)
           \/ Within(MaxMediaSlides) /\ SkipOutsideRound(slide)
           \/ Within(MaxMediaSlides) /\ DropIncomplete(slide)
           \/ Within(MaxMediaSlides) /\ AppendClue(slide)
    \/ BuildData

SpecMedia == Init /\ [][NextMedia]_vars

(***************************************************************************)
(* Vocabulary of the properties, over the slides consumed so far.          *)
(***************************************************************************)
Positions == 1..Len(slides)
RoundNames == {"round1", "round2"}

\* What the properties ask of a slide, evaluated once for each slide of
\* the decks explored: whether its trimmed title is, whatever its case, the
\* round-1, the round-2 or the final marker text; its trimmed title; and
\* whether trimmed title, body text and notes text are all non-empty.
SlideFacts ==
    [slide \in DeckSlides \cup MediaSlides |->
        [round1 |-> UpperTitle(slide) = r1_key,
         round2 |-> UpperTitle(slide) = r2_key,
         final  |-> UpperTitle(slide) = f_key,
         title  |-> Strip(get_slide_title(slide)),
         given  |-> /\ Strip(get_slide_title(slide)) # <<>>
                    /\ get_body_text(slide) # <<>>
                    /\ get_notes_text(slide) # <<>>]]

IsRound1Marker(slide) == SlideFacts[slide].round1
IsRound2Marker(slide) == SlideFacts[slide].round2
IsRoundMarker(slide) == IsRound1Marker(slide) \/ IsRound2Marker(slide)
IsFinalMarker(slide) == SlideFacts[slide].final
IsMarker(slide) == IsRoundMarker(slide) \/ IsFinalMarker(slide)

\* Position of the last marker slide before slide i, 0 when there is none.
LastMarkerBefore(i) ==
    LET ms == {j \in 1..(i - 1) : IsMarker(slides[j])}
    IN  IF ms = {} THEN 0 ELSE CHOOSE j \in ms : \A k \in ms : k <= j

\* The section slide i is met in: that of the last marker before it.
SectionAt(i) ==
    LET m == LastMarkerBefore(i)
    IN  IF m = 0 THEN "none"
        ELSE IF IsRound1Marker(slides[m]) THEN "round1"
        ELSE IF IsRound2Marker(slides[m]) THEN "round2"
        ELSE "none"

TitleOf(slide) == SlideFacts[slide].title

\* Slide i is a content slide: met inside a round, its title no marker.
IsContent(i) == ~IsMarker(slides[i]) /\ SectionAt(i) \in RoundNames

\* Trimmed title, body text and notes text are all non-empty.
AllThreeGiven(slide) == SlideFacts[slide].given

\* Slide i is a content slide that is complete.
IsClueSlide(i) == IsContent(i) /\ AllThreeGiven(slides[i])

\* The content slides (complete or not) of round r titled name, and the
\* complete ones among them.
ContentSlidesOf(r, name) ==
    {i \in Positions : IsContent(i) /\ SectionAt(i) = r /\ TitleOf(slides[i]) = name}
ClueSlidesOf(r, name) == {i \in ContentSlidesOf(r, name) : AllThreeGiven(slides[i])}

Least(S) == CHOOSE i \in S : \A j \in S : i <= j
\* The k-th smallest element of a set of numbers.
Nth(S, k) == CHOOSE i \in S : Cardinality({j \in S : j <= i}) = k

\* The clue of slide i: its body as question, its notes as answer, its media.
ClueOfSlide(i) ==
    ClueRecord(get_body_text(slides[i]), get_notes_text(slides[i]),
               extract_images_from_slide(slides[i], i),
               extract_audio_from_slide(slides[i], ContainerMedia, i))

\* The categories of output round r (1 or 2) of the document.
OutputCategories(r) == data[1].rounds[r].categories
RoundKey(r) == IF r = 1 THEN "round1" ELSE "round2"

\* The clues of each category are those of its complete content slides, in
\* the order the slides were met.
CluesInSlideOrder(r) ==
    \A k \in 1..Len(OutputCategories(r)) :
        LET cat == OutputCategories(r)[k]
            S   == ClueSlidesOf(RoundKey(r), cat.name)
        IN  /\ Len(cat.clues) = Cardinality(S)
            /\ \A j \in 1..Len(cat.clues) : cat.clues[j] = ClueOfSlide(Nth(S, j))

(***************************************************************************)
(* C1 as stated: in each output round the categories are in the order in   *)
(* which the first content slide bearing each title was met (a content     *)
(* slide being any non-marker slide met inside the round, complete or      *)
(* not), and the clues of a category are in slide order.                   *)
(***************************************************************************)
C1_OrderByFirstContentSlide ==
    pc = "done" =>
        \A r \in {1, 2} :
            /\ \A k, l \in 1..Len(OutputCategories(r)) :
                   k < l =>
                       LET Sk == ContentSlidesOf(RoundKey(r), OutputCategories(r)[k].name)
                           Sl == ContentSlidesOf(RoundKey(r), OutputCategories(r)[l].name)
                       IN  Sk # {} /\ Sl # {} /\ Least(Sk) < Least(Sl)
            /\ CluesInSlideOrder(r)

(***************************************************************************)
(* C1 amended: in each output round the categories are in the order in     *)
(* which the first COMPLETE content slide bearing each title was met (the  *)
(* slide that inserted the category); a dropped slide does not reserve a   *)
(* place for its title.  The clues of a category are in slide order.       *)
(***************************************************************************)
C1_OrderByFirstClueSlide ==
    pc = "done" =>
        \A r \in {1, 2} :
            /\ \A k, l \in 1..Len(OutputCategories(r)) :
                   k < l =>
                       LET Sk == ClueSlidesOf(RoundKey(r), OutputCategories(r)[k].name)
                           Sl == ClueSlidesOf(RoundKey(r), OutputCategories(r)[l].name)
                       IN  Sk # {} /\ Sl # {} /\ Least(Sk) < Least(Sl)
            /\ CluesInSlideOrder(r)

\* A document whose first round has two categories, the first of them with
\* two different clues, its slides separated by the other category's.
C1_Witness ==
    /\ pc = "done"
    /\ Len(OutputCategories(1)) = 2
    /\ Len(OutputCategories(1)[1].clues) = 2
    /\ OutputCategories(1)[1].clues[1] # OutputCategories(1)[1].clues[2]
    /\ Least(ClueSlidesOf("round1", OutputCategories(1)[2].name))
           < Nth(ClueSlidesOf("round1", OutputCategories(1)[1].name), 2)

(***************************************************************************)
(* Vocabulary of the step properties: the slide a step consumes.           *)
(***************************************************************************)
\* The step consumes one slide.
ConsumesSlide == Len(slides') = Len(slides) + 1
\* The slide the step consumes.
Consumed == slides'[Len(slides')]

\* The clues OrderedDict od holds for a category name, none when it is no key.
CluesIn(od, name) ==
    IF \E k \in 1..Len(od) : od[k][1] = name
    THEN od[CHOOSE k \in 1..Len(od) : od[k][1] = name][2]
    ELSE <<>>

Keys(od) == {od[k][1] : k \in 1..Len(od)}

(***************************************************************************)
(* C2: a content slide (met while the current section is a round, its      *)
(* title no marker) with an empty trimmed title, body or notes adds no     *)
(* entry; one with all three adds exactly one clue, to the category named  *)
(* by its title in the current round, and nothing to any other category    *)
(* or round.                                                               *)
(***************************************************************************)
C2_CompletenessDrop ==
    [][ (ConsumesSlide /\ current_round \in RoundNames /\ ~IsMarker(Consumed)) =>
            LET other == IF current_round = "round1" THEN "round2" ELSE "round1"
                name  == TitleOf(Consumed)
            IN  IF ~AllThreeGiven(Consumed)
                THEN rounds' = rounds /\ final' = final
                ELSE /\ rounds'[other] = rounds[other]
                     /\ final' = final
                     /\ Keys(rounds'[current_round]) = Keys(rounds[current_round]) \cup {name}
                     /\ Len(rounds'[current_round]) = Cardinality(Keys(rounds'[current_round]))
                     /\ \A c \in Keys(rounds[current_round]) \ {name} :
                            CluesIn(rounds'[current_round], c) = CluesIn(rounds[current_round], c)
                     /\ Len(CluesIn(rounds'[current_round], name))
                            = Len(CluesIn(rounds[current_round], name)) + 1
                     /\ SubSeq(CluesIn(rounds'[current_round], name), 1,
                               Len(CluesIn(rounds[current_round], name)))
                            = CluesIn(rounds[current_round], name)
                     /\ LET clue == CluesIn(rounds'[current_round], name)
                                        [Len(CluesIn(rounds'[current_round], name))]
                        IN  /\ clue.question = get_body_text(Consumed)
                            /\ clue.answer = get_notes_text(Consumed)
      ]_vars

\* A round that was given an incomplete slide and then a complete one, and
\* holds the one clue of the complete slide.
C2_Witness ==
    /\ Len(slides) = 3
    /\ IsContent(2) /\ ~AllThreeGiven(slides[2])
    /\ IsClueSlide(3)
    /\ Len(rounds[SectionAt(3)]) = 1
    /\ Len(rounds[SectionAt(3)][1][2]) = 1

(***************************************************************************)
(* Vocabulary of the Final record.                                         *)
(***************************************************************************)
FinalMarkerSlides == {i \in Positions : IsFinalMarker(slides[i]) /\ ~IsRoundMarker(slides[i])}
Greatest(S) == CHOOSE i \in S : \A j \in S : j <= i

\* The media keys of record rec are those of slide i: a key for each
\* non-empty list of files, holding the files' paths under the assets root.
MediaOfSlide(rec, i) ==
    LET imgs == extract_images_from_slide(slides[i], i)
        auds == extract_audio_from_slide(slides[i], ContainerMedia, i)
    IN  /\ ("images" \in DOMAIN rec) = (imgs # <<>>)
        /\ ("audio" \in DOMAIN rec) = (auds # <<>>)
        /\ "images" \in DOMAIN rec => rec.images = ImageRefs(imgs)
        /\ "audio" \in DOMAIN rec => rec.audio = AudioRefs(auds)

(***************************************************************************)
(* C3: the document holds at most one Final record; when the deck has      *)
(* final-marker slides, its question, answer and media are those of the    *)
(* last of them, and its category is the configured final-marker text,     *)
(* whatever the slide's literal title.                                     *)
(***************************************************************************)
C3_FinalIsLastMarker ==
    (pc = "done" /\ FinalMarkerSlides # {}) =>
        LET last == Greatest(FinalMarkerSlides)
            out  == data[1].final
        IN  /\ Len(out) = 1
            /\ out[1].category = final_title
            /\ out[1].question = get_body_text(slides[last])
            /\ out[1].answer = get_notes_text(slides[last])
            /\ MediaOfSlide(out[1], last)

\* A document of a deck with two different final-marker slides, the last of
\* them titled otherwise than the configured text.
C3_Witness ==
    /\ pc = "done"
    /\ Cardinality(FinalMarkerSlides) = 2
    /\ slides[Least(FinalMarkerSlides)] # slides[Greatest(FinalMarkerSlides)]
    /\ get_slide_title(slides[Greatest(FinalMarkerSlides)]) # final_title
    /\ "images" \in DOMAIN data[1].final[1]

(***************************************************************************)
(* C4: the document's final field is non-null exactly when a final-marker  *)
(* slide was met, and None otherwise; a final-marker slide gives a Final   *)
(* record also when its body or notes text is empty.                       *)
(***************************************************************************)
C4_FinalIffMarker ==
    pc = "done" => ((data[1].final # None) <=> (FinalMarkerSlides # {}))

\* A document whose Final record has an empty question and an empty answer.
C4_Witness ==
    /\ pc = "done"
    /\ data[1].final # None
    /\ data[1].final[1].question = <<>>
    /\ data[1].final[1].answer = <<>>

(***************************************************************************)
(* C5: a slide met before any round-marker slide (the current section is   *)
(* None) that is not itself a marker produces no clue and changes no       *)
(* state, complete or not.                                                 *)
(***************************************************************************)
C5_PreSectionSkip ==
    [][ (/\ ConsumesSlide
         /\ ~IsMarker(Consumed)
         /\ \A j \in Positions : ~IsRoundMarker(slides[j])) =>
            /\ current_round = "none"
            /\ UNCHANGED <<current_round, rounds, final, images_dir, audio_dir, data, pc>>
      ]_vars

\* A complete slide with a picture and audio came first, and nothing was kept.
C5_Witness ==
    /\ Len(slides) >= 1
    /\ ~IsMarker(slides[1])
    /\ AllThreeGiven(slides[1])
    /\ extract_images_from_slide(slides[1], 1) # <<>>
    /\ rounds = [round1 |-> <<>>, round2 |-> <<>>]
    /\ images_dir = {}

HasPicture(slide) ==
    \E i \in 1..Len(slide.shapes) :
        slide.shapes[i].shape_type = PICTURE /\ slide.shapes[i].has_image

\* The slide's manifest names an audio target that is in the container.
HasResolvedAudio(slide) ==
    /\ slide.has_rels
    /\ \E i \in 1..Len(slide.rels) :
           IsAudioRel(slide.rels[i]) /\ NormTarget(slide.rels[i].target) \in ContainerMedia

\* The step consumes a final-marker slide.
ConsumesFinal == ConsumesSlide /\ IsFinalMarker(Consumed) /\ ~IsRoundMarker(Consumed)
\* The step consumes a complete content slide.
ConsumesClue ==
    /\ ConsumesSlide
    /\ ~IsMarker(Consumed)
    /\ current_round \in RoundNames
    /\ AllThreeGiven(Consumed)

\* The media keys of a record made from a slide are as the slide's media.
MediaKeysMatch(rec, slide) ==
    /\ ("images" \in DOMAIN rec) <=> HasPicture(slide)
    /\ ("audio" \in DOMAIN rec) <=> HasResolvedAudio(slide)
    /\ "images" \in DOMAIN rec => rec.images # <<>>
    /\ "audio" \in DOMAIN rec => rec.audio # <<>>

(***************************************************************************)
(* C7: the record made from a slide (a clue, or the Final record) has the  *)
(* images key if and only if the slide has a picture shape, and the audio  *)
(* key if and only if an audio target of the slide's manifest exists in    *)
(* the container; a key that is present holds no empty list.               *)
(***************************************************************************)
C7_MediaAttachment ==
    [][ /\ ConsumesFinal => final' # None /\ MediaKeysMatch(final'[1], Consumed)
        /\ ConsumesClue =>
               LET clues == CluesIn(rounds'[current_round], TitleOf(Consumed))
               IN  clues # <<>> /\ MediaKeysMatch(clues[Len(clues)], Consumed)
      ]_vars

\* A clue with pictures and no audio key, before a clue without either key
\* though its slide's manifest names an audio target (one the container
\* does not hold).
C7_Witness ==
    /\ Len(slides) = 3
    /\ IsClueSlide(2) /\ IsClueSlide(3)
    /\ HasPicture(slides[2]) /\ slides[2].has_rels /\ ~HasResolvedAudio(slides[2])
    /\ slide_audio_targets(slides[3]) # <<>> /\ ~HasResolvedAudio(slides[3])
    /\ LET clues == CluesIn(rounds[SectionAt(3)], TitleOf(slides[3]))
       IN  /\ Len(clues) = 2
           /\ DOMAIN clues[1] = {"question", "answer", "images"}
           /\ DOMAIN clues[2] = {"question", "answer"}

(***************************************************************************)
(* C8: within a round no two categories have the same name; the clues of   *)
(* all complete content slides of the round with one title are in one      *)
(* category, also when the slides are separated by other categories, by    *)
(* dropped slides or by markers that leave and re-enter the round; and a   *)
(* category keeps the position of its first insertion.                     *)
(***************************************************************************)
\* Each round has one category for each title of its complete content
\* slides, holding as many clues as there are such slides.
OneCategoryPerTitle ==
    \A r \in RoundNames :
        /\ Len(rounds[r]) = Cardinality(Keys(rounds[r]))
        /\ Keys(rounds[r]) =
               {TitleOf(slides[i]) : i \in {j \in Positions : IsClueSlide(j) /\ SectionAt(j) = r}}
        /\ \A k \in 1..Len(rounds[r]) :
               Len(rounds[r][k][2]) = Cardinality(ClueSlidesOf(r, rounds[r][k][1]))

\* The position of a category is one more than the number of titles whose
\* first complete content slide came before its own: the position it was
\* inserted at, which no later slide changes.
KeepsInsertionPosition ==
    \A r \in RoundNames :
        \A k \in 1..Len(rounds[r]) :
            k = 1 + Cardinality({t \in Keys(rounds[r]) :
                                    Least(ClueSlidesOf(r, t))
                                        < Least(ClueSlidesOf(r, rounds[r][k][1]))})

\* The document lists the categories of the accumulator, in its order.
OutputAsAccumulated ==
    pc = "done" =>
        \A n \in {1, 2} :
            /\ Len(OutputCategories(n)) = Len(rounds[RoundKey(n)])
            /\ \A k \in 1..Len(rounds[RoundKey(n)]) :
                   /\ OutputCategories(n)[k].name = rounds[RoundKey(n)][k][1]
                   /\ OutputCategories(n)[k].clues = rounds[RoundKey(n)][k][2]

\* C8: one category per title in each round, collecting the clues of all
\* the round's complete slides with that title, at its insertion position,
\* in the accumulator and in the document.
C8_CategoryIdentity ==
    OneCategoryPerTitle /\ KeepsInsertionPosition /\ OutputAsAccumulated

\* A category of round 1 with two clues whose slides are separated by a
\* round-2 marker and the round-1 marker that re-enters the round.
C8_Witness ==
    /\ Len(slides) = 5
    /\ IsClueSlide(2)
    /\ IsRound2Marker(slides[3])
    /\ IsRound1Marker(slides[4])
    /\ IsClueSlide(5)
    /\ TitleOf(slides[2]) = TitleOf(slides[5])
    /\ Len(rounds.round1) = 1
    /\ Len(rounds.round1[1][2]) = 2

(***************************************************************************)
(* C9: a final-marker slide sets the current section to None; no           *)
(* non-marker slide between a final marker and the next round marker       *)
(* produces a clue, whatever section was current before; a round marker    *)
(* after the final marker resumes accumulation into its round.             *)
(***************************************************************************)
C9_FinalClosesSection ==
    [][ /\ ConsumesFinal => current_round' = "none"
        /\ (/\ ConsumesSlide
            /\ ~IsMarker(Consumed)
            /\ LastMarkerBefore(Len(slides) + 1) # 0
            /\ IsFinalMarker(slides[LastMarkerBefore(Len(slides) + 1)])) =>
               UNCHANGED <<rounds, final, current_round>>
        /\ (/\ ConsumesSlide
            /\ ~IsMarker(Consumed)
            /\ AllThreeGiven(Consumed)
            /\ FinalMarkerSlides # {}
            /\ LastMarkerBefore(Len(slides) + 1) # 0
            /\ IsRoundMarker(slides[LastMarkerBefore(Len(slides) + 1)])) =>
               LET r == IF IsRound1Marker(slides[LastMarkerBefore(Len(slides) + 1)])
                        THEN "round1" ELSE "round2"
               IN  Len(CluesIn(rounds'[r], TitleOf(Consumed)))
                       = Len(CluesIn(rounds[r], TitleOf(Consumed))) + 1
      ]_vars

\* Round 1 was left by a final marker, the complete slide after it was
\* skipped, and the complete slide after the round-2 marker gave a clue.
C9_Witness ==
    /\ Len(slides) = 5
    /\ IsRound1Marker(slides[1])
    /\ 2 \in FinalMarkerSlides
    /\ ~IsMarker(slides[3]) /\ AllThreeGiven(slides[3])
    /\ IsRound2Marker(slides[4])
    /\ IsClueSlide(5)
    /\ rounds.round1 = <<>>
    /\ Len(rounds.round2) = 1 /\ Len(rounds.round2[1][2]) = 1

(***************************************************************************)
(* C10: files are written to the assets folders only by a final-marker     *)
(* slide and by a complete content slide: a round-marker slide, a slide    *)
(* skipped outside the rounds and a content slide dropped as incomplete    *)
(* leave both folders as they were.                                        *)
(***************************************************************************)
C10_MediaOnlyWhenKept ==
    [][ (ConsumesSlide /\ ~ConsumesFinal /\ ~ConsumesClue) =>
            UNCHANGED <<images_dir, audio_dir>>
      ]_vars

\* A slide skipped before the rounds, a round marker and a dropped content
\* slide, each with a picture, and both folders still empty.
C10_Witness ==
    /\ Len(slides) = 3
    /\ ~IsMarker(slides[1]) /\ HasPicture(slides[1])
    /\ IsRoundMarker(slides[2]) /\ HasPicture(slides[2]) /\ HasResolvedAudio(slides[2])
    /\ IsContent(3) /\ ~AllThreeGiven(slides[3]) /\ HasPicture(slides[3])
    /\ HasResolvedAudio(slides[3])
    /\ images_dir = {} /\ audio_dir = {}

====
